---- MODULE Spec2Model ----
(***************************************************************************)
(* A model of file-content: encoding detection (TextData::try_from),       *)
(* the UTF-16 unit packer (to_u16_be / to_u16_le), the encoders            *)
(* (to_utf8_bom / to_utf16_be / to_utf16_le), and the file record          *)
(* (File::new, FileContent::write).                                        *)
(*                                                                         *)
(* A byte is a number in 0..255, a byte buffer a sequence of bytes.  A     *)
(* Rust String is modelled by its sequence of chars (Unicode scalar        *)
(* values, 0..0x10FFFF without 0xD800..0xDFFF); String::from_utf8,         *)
(* String::as_bytes, String::from_utf16 and char::encode_utf16 are         *)
(* modelled by what they compute on bytes, units and chars.                *)
(***************************************************************************)
EXTENDS Integers, Sequences, FiniteSets

VARIABLES
    bytes,      \* the buffer handed to TextData::try_from / File::new / to_u16_*
    text_data,  \* outcome of TextData::try_from(bytes), or NoResult
    file,       \* the File's content: NoFile, Encoded or Binary
    loaded,     \* TRUE iff file is what File::new returned for bytes
    written,    \* what FileContent::write put into the writer, or NoOutput
    units       \* outcome of to_u16_be / to_u16_le on bytes, or NoUnits

vars == <<bytes, text_data, file, loaded, written, units>>

----------------------------------------------------------------------------
(* constants.rs *)

UTF16BE_BOM == <<254, 255>>
UTF16LE_BOM == <<255, 254>>
UTF8_BOM == <<239, 187, 191>>
ZERO_BYTE == 0
BINARY_DETECTION_THRESHOLD == 8000
UTF8_BOM_LENGTH == 3
UTF16_BOM_LENGTH == 2

(* encoding.rs: enum Encoding *)
Encodings == {"Utf8", "Utf8Bom", "Utf16Be", "Utf16Le"}

----------------------------------------------------------------------------
(* Slices *)

Min(a, b) == IF a < b THEN a ELSE b

\* <[u8]>::starts_with
starts_with(b, prefix) ==
    /\ Len(b) >= Len(prefix)
    /\ SubSeq(b, 1, Len(prefix)) = prefix

\* &bytes[n..]
SliceFrom(b, n) == SubSeq(b, n + 1, Len(b))

----------------------------------------------------------------------------
(* String::from_utf8: UTF-8 validation and the chars of the validated      *)
(* buffer.  A byte that is not a continuation byte (0x80..0xBF) starts a   *)
(* sequence whose width its value fixes; the sequence must be complete,    *)
(* its trailing bytes must lie in the ranges that exclude overlong forms,  *)
(* surrogates and values above 0x10FFFF, and the byte after it must start  *)
(* the next sequence.                                                      *)

IsContinuation(x) == x >= 128 /\ x <= 191

\* core::str::validations::UTF8_CHAR_WIDTH; 0 marks a byte that starts nothing
utf8_char_width(x) ==
    IF x < 128 THEN 1
    ELSE IF x >= 194 /\ x <= 223 THEN 2
    ELSE IF x >= 224 /\ x <= 239 THEN 3
    ELSE IF x >= 240 /\ x <= 244 THEN 4
    ELSE 0

\* the range allowed for the second byte of the sequence led by `first`
SecondByteOk(first, second) ==
    IF first = 224 THEN second >= 160 /\ second <= 191
    ELSE IF first = 237 THEN second >= 128 /\ second <= 159
    ELSE IF first = 240 THEN second >= 144 /\ second <= 191
    ELSE IF first = 244 THEN second >= 128 /\ second <= 143
    ELSE IsContinuation(second)

\* a well-formed sequence starts at i, and nothing but a sequence start follows it
SequenceOkAt(b, i) ==
    LET w == utf8_char_width(b[i]) IN
    /\ w > 0
    /\ i + w - 1 <= Len(b)
    /\ w >= 2 => SecondByteOk(b[i], b[i + 1])
    /\ \A k \in 2..(w - 1) : IsContinuation(b[i + k])
    /\ i + w <= Len(b) => ~IsContinuation(b[i + w])

ValidUtf8(b) ==
    /\ Len(b) > 0 => ~IsContinuation(b[1])
    /\ \A i \in 1..Len(b) : ~IsContinuation(b[i]) => SequenceOkAt(b, i)

\* the char of the well-formed sequence that starts at i
CharAt(b, i) ==
    LET w == utf8_char_width(b[i]) IN
    IF w = 1 THEN b[i]
    ELSE IF w = 2 THEN (b[i] - 192) * 64 + (b[i + 1] - 128)
    ELSE IF w = 3 THEN (b[i] - 224) * 4096 + (b[i + 1] - 128) * 64 + (b[i + 2] - 128)
    ELSE (b[i] - 240) * 262144 + (b[i + 1] - 128) * 4096
             + (b[i + 2] - 128) * 64 + (b[i + 3] - 128)

IsChar(c) == c >= 0

\* the chars of a valid buffer, in order
Utf8Chars(b) ==
    SelectSeq([i \in 1..Len(b) |-> IF IsContinuation(b[i]) THEN -1 ELSE CharAt(b, i)],
              IsChar)

\* String::from_utf8(bytes.to_vec())
from_utf8(b) ==
    IF ValidUtf8(b)
    THEN [ok |-> TRUE, data |-> Utf8Chars(b)]
    ELSE [ok |-> FALSE, data |-> <<>>]

----------------------------------------------------------------------------
(* String::as_bytes: the UTF-8 bytes of the chars, in order *)

\* char::encode_utf8
encode_utf8(c) ==
    IF c < 128 THEN <<c>>
    ELSE IF c < 2048 THEN <<192 + (c \div 64), 128 + (c % 64)>>
    ELSE IF c < 65536
         THEN <<224 + (c \div 4096), 128 + ((c \div 64) % 64), 128 + (c % 64)>>
    ELSE <<240 + (c \div 262144), 128 + ((c \div 4096) % 64),
           128 + ((c \div 64) % 64), 128 + (c % 64)>>

RECURSIVE as_bytes(_)
as_bytes(s) ==
    IF Len(s) = 0 THEN <<>>
    ELSE IF Len(s) = 1 THEN encode_utf8(s[1])
    ELSE LET m == Len(s) \div 2 IN
         as_bytes(SubSeq(s, 1, m)) \o as_bytes(SubSeq(s, m + 1, Len(s)))

----------------------------------------------------------------------------
(* utf16.rs: the UTF-16 unit packer *)

UnevenByteSequenceError == [ok |-> FALSE, units |-> <<>>]

\* u16::from_be_bytes / u16::from_le_bytes on one chunk of two bytes
from_be_bytes(hi, lo) == hi * 256 + lo
\* mutant of from_le_bytes: the chunk is read high byte first
from_le_bytes_high_first(lo, hi) == lo * 256 + hi
from_le_bytes(lo, hi) == hi * 256 + lo

\* mutant of to_u16_be: a dangling last byte is dropped (chunks_exact)
to_u16_be_truncating(input) ==
    [ok |-> TRUE,
     units |-> [i \in 1..(Len(input) \div 2) |->
                   from_be_bytes(input[2 * i - 1], input[2 * i])]]

to_u16_be(input) ==
    IF Len(input) % 2 # 0
    THEN UnevenByteSequenceError
    ELSE [ok |-> TRUE,
          units |-> [i \in 1..(Len(input) \div 2) |->
                        from_be_bytes(input[2 * i - 1], input[2 * i])]]

to_u16_le(input) ==
    IF Len(input) % 2 # 0
    THEN UnevenByteSequenceError
    ELSE [ok |-> TRUE,
          units |-> [i \in 1..(Len(input) \div 2) |->
                        from_le_bytes(input[2 * i - 1], input[2 * i])]]

----------------------------------------------------------------------------
(* String::from_utf16: char::decode_utf16 over the units, failing on the   *)
(* first unpaired surrogate *)

IsSurrogate(u) == u >= 55296 /\ u <= 57343
IsHighSurrogate(u) == u >= 55296 /\ u <= 56319
IsLowSurrogate(u) == u >= 56320 /\ u <= 57343

\* units v[i..] decoded: a unit outside the surrogate range is a char; a low
\* surrogate first is an error; a high surrogate needs a low surrogate next
RECURSIVE decode_utf16(_, _)
decode_utf16(v, i) ==
    IF i > Len(v) THEN [ok |-> TRUE, data |-> <<>>]
    ELSE IF ~IsSurrogate(v[i])
    THEN LET rest == decode_utf16(v, i + 1) IN
         [ok |-> rest.ok, data |-> IF rest.ok THEN <<v[i]>> \o rest.data ELSE <<>>]
    ELSE IF v[i] >= 56320 THEN [ok |-> FALSE, data |-> <<>>]
    ELSE IF i + 1 > Len(v) THEN [ok |-> FALSE, data |-> <<>>]
    ELSE IF ~IsLowSurrogate(v[i + 1]) THEN [ok |-> FALSE, data |-> <<>>]
    ELSE LET c == 65536 + (v[i] - 55296) * 1024 + (v[i + 1] - 56320)
             rest == decode_utf16(v, i + 2) IN
         [ok |-> rest.ok, data |-> IF rest.ok THEN <<c>> \o rest.data ELSE <<>>]

\* mutant of from_utf16: String::from_utf16_lossy, an unpaired surrogate
\* becomes U+FFFD instead of an error
RECURSIVE decode_utf16_lossy(_, _)
decode_utf16_lossy(v, i) ==
    IF i > Len(v) THEN <<>>
    ELSE IF ~IsSurrogate(v[i]) THEN <<v[i]>> \o decode_utf16_lossy(v, i + 1)
    ELSE IF v[i] >= 56320 \/ i + 1 > Len(v) \/ ~IsLowSurrogate(v[i + 1])
    THEN <<65533>> \o decode_utf16_lossy(v, i + 1)
    ELSE <<65536 + (v[i] - 55296) * 1024 + (v[i + 1] - 56320)>>
             \o decode_utf16_lossy(v, i + 2)

from_utf16_lossy(v) == [ok |-> TRUE, data |-> decode_utf16_lossy(v, 1)]

from_utf16(v) == decode_utf16(v, 1)

----------------------------------------------------------------------------
(* encoding.rs: the encoders *)

\* mutant of encode_utf16: a char above U+FFFF is cut to one 16-bit unit
encode_utf16_one_unit(c) == <<c % 65536>>

\* char::encode_utf16
encode_utf16(c) ==
    IF c < 65536 THEN <<c>>
    ELSE <<55296 + ((c - 65536) \div 1024), 56320 + ((c - 65536) % 1024)>>

\* u16::to_be_bytes / u16::to_le_bytes
to_be_bytes(u) == <<u \div 256, u % 256>>
\* mutant of to_le_bytes: the high byte first, under the little-endian BOM
to_le_bytes_high_first(u) == <<u \div 256, u % 256>>
to_le_bytes(u) == <<u % 256, u \div 256>>

\* the bytes of one char's units, each in big-endian (little-endian) order
RECURSIVE UnitsBe(_)
UnitsBe(us) == IF us = <<>> THEN <<>> ELSE to_be_bytes(Head(us)) \o UnitsBe(Tail(us))
RECURSIVE UnitsLe(_)
UnitsLe(us) == IF us = <<>> THEN <<>> ELSE to_le_bytes(Head(us)) \o UnitsLe(Tail(us))

\* mutant of to_utf8_bom: the BOM is not re-emitted
to_utf8_without_bom(s) == as_bytes(s)
to_utf8_bom(s) == UTF8_BOM \o as_bytes(s)

\* the loop `for c in s.chars()` from char i on, extending `out`
RECURSIVE extend_be(_, _, _)
extend_be(s, i, out) ==
    IF i > Len(s) THEN out
    ELSE extend_be(s, i + 1, out \o UnitsBe(encode_utf16(s[i])))

\* mutant of to_utf16_be: the little-endian BOM before big-endian units
to_utf16_be_le_bom(s) == extend_be(s, 1, UTF16LE_BOM)

to_utf16_be(s) == extend_be(s, 1, UTF16BE_BOM)

RECURSIVE extend_le(_, _, _)
extend_le(s, i, out) ==
    IF i > Len(s) THEN out
    ELSE extend_le(s, i + 1, out \o UnitsLe(encode_utf16(s[i])))

to_utf16_le(s) == extend_le(s, 1, UTF16LE_BOM)

----------------------------------------------------------------------------
(* text_data.rs: detection *)

Ok(data, encoding) ==
    [tag |-> "Ok", data |-> data, encoding |-> encoding, error |-> "-"]
Err(error) ==
    [tag |-> "Err", data |-> <<>>, encoding |-> "-", error |-> error]
NoResult == [tag |-> "None", data |-> <<>>, encoding |-> "-", error |-> "-"]

\* mutant of is_binary: the scan takes one byte more
is_binary_one_more(b) ==
    \E i \in 1..Min(Len(b), BINARY_DETECTION_THRESHOLD + 1) : b[i] = ZERO_BYTE

\* mutant of Utf8Branch: a buffer with nothing to decode is reported Binary
Utf8Branch_empty_is_binary(body, encoding) ==
    LET s == from_utf8(body) IN
    IF body = <<>> THEN Err("Binary")
    ELSE IF s.ok THEN Ok(s.data, encoding) ELSE Err("FromUtf8")

\* bytes.iter().take(BINARY_DETECTION_THRESHOLD).any(|b| *b == ZERO_BYTE)
is_binary(b) ==
    \E i \in 1..Min(Len(b), BINARY_DETECTION_THRESHOLD) : b[i] = ZERO_BYTE

\* String::from_utf8(..)? tagged with the encoding
Utf8Branch(body, encoding) ==
    LET s == from_utf8(body) IN
    IF s.ok THEN Ok(s.data, encoding) ELSE Err("FromUtf8")

\* String::from_utf16(&to_u16_xx(..)?)? tagged with the encoding: the packer's
\* error returns before from_utf16 is called
Utf16Branch(packed, encoding) ==
    IF ~packed.ok THEN Err("UnevenByteSequence")
    ELSE LET s == from_utf16(packed.units) IN
         IF s.ok THEN Ok(s.data, encoding) ELSE Err("FromUtf16")

\* mutant of try_from: the binary heuristic runs before the BOM checks
try_from_binary_first(b) ==
    IF is_binary(b)
    THEN Err("Binary")
    ELSE IF starts_with(b, UTF8_BOM)
    THEN Utf8Branch(SliceFrom(b, UTF8_BOM_LENGTH), "Utf8Bom")
    ELSE IF starts_with(b, UTF16BE_BOM)
    THEN Utf16Branch(to_u16_be(SliceFrom(b, UTF16_BOM_LENGTH)), "Utf16Be")
    ELSE IF starts_with(b, UTF16LE_BOM)
    THEN Utf16Branch(to_u16_le(SliceFrom(b, UTF16_BOM_LENGTH)), "Utf16Le")
    ELSE Utf8Branch(b, "Utf8")

\* impl TryFrom<&[u8]> for TextData
try_from(b) ==
    IF starts_with(b, UTF8_BOM)
    THEN Utf8Branch(SliceFrom(b, UTF8_BOM_LENGTH), "Utf8Bom")
    ELSE IF starts_with(b, UTF16BE_BOM)
    THEN Utf16Branch(to_u16_be(SliceFrom(b, UTF16_BOM_LENGTH)), "Utf16Be")
    ELSE IF starts_with(b, UTF16LE_BOM)
    THEN Utf16Branch(to_u16_le(SliceFrom(b, UTF16_BOM_LENGTH)), "Utf16Le")
    ELSE IF is_binary(b)
    THEN Err("Binary")
    ELSE Utf8Branch(b, "Utf8")

----------------------------------------------------------------------------
(* file.rs: the file record *)

Encoded(data, encoding) ==
    [kind |-> "Encoded", data |-> data, encoding |-> encoding, content |-> <<>>]
Binary(content) ==
    [kind |-> "Binary", data |-> <<>>, encoding |-> "-", content |-> content]
NoFile == [kind |-> "None", data |-> <<>>, encoding |-> "-", content |-> <<>>]

\* mutant of File_new: only the Binary error keeps the raw bytes, a buffer
\* that fails validation becomes empty text
File_new_lossy(b) ==
    LET content == try_from(b) IN
    IF content.tag = "Ok"
    THEN Encoded(content.data, content.encoding)
    ELSE IF content.error = "Binary" THEN Binary(b)
    ELSE Encoded(<<>>, "Utf8")

\* File::new: the content it stores.  The only Err it returns is the reader's
\* I/O error; on a buffer it returns Ok(File) whatever TextData::try_from said
File_new(b) ==
    LET content == try_from(b) IN
    IF content.tag = "Ok"
    THEN Encoded(content.data, content.encoding)
    ELSE Binary(b)

\* mutant of write: Binary content is written as a C string, up to its
\* first NUL
RECURSIVE UpToNul(_)
UpToNul(b) ==
    IF b = <<>> \/ Head(b) = ZERO_BYTE THEN <<>> ELSE <<Head(b)>> \o UpToNul(Tail(b))

write_binary_up_to_nul(f) ==
    IF f.kind = "Encoded"
    THEN IF f.encoding = "Utf8" THEN as_bytes(f.data)
         ELSE IF f.encoding = "Utf8Bom" THEN to_utf8_bom(f.data)
         ELSE IF f.encoding = "Utf16Be" THEN to_utf16_be(f.data)
         ELSE to_utf16_le(f.data)
    ELSE UpToNul(f.content)

\* FileContent::write: the bytes passed to writer.write_all
write(f) ==
    IF f.kind = "Encoded"
    THEN IF f.encoding = "Utf8" THEN as_bytes(f.data)
         ELSE IF f.encoding = "Utf8Bom" THEN to_utf8_bom(f.data)
         ELSE IF f.encoding = "Utf16Be" THEN to_utf16_be(f.data)
         ELSE to_utf16_le(f.data)
    ELSE f.content

Output(b) == [tag |-> "Some", bytes |-> b]
NoOutput == [tag |-> "None", bytes |-> <<>>]

Packed(order, r) == [order |-> order, ok |-> r.ok, units |-> r.units]
NoUnits == [order |-> "-", ok |-> FALSE, units |-> <<>>]

----------------------------------------------------------------------------
(* The buffers and texts explored *)

MaxBody == 5
MaxBody16 == 6
MaxTail == 2
MaxText == 2

SeqsUpTo(S, n) == UNION {[1..k -> S] : k \in 0..n}

\* bytes that follow no BOM or the UTF-8 BOM: NUL, 'A', a continuation byte,
\* the lead byte of a two-byte sequence
Utf8BodyBytes == {0, 65, 128, 195}

\* bytes that follow a UTF-16 BOM: they pair into NUL and other BMP units
\* (0x00xx), high surrogates (0xD8xx) and low surrogates (0xDCxx)
Utf16BodyBytes == {0, 216, 220}

\* the malformed and binary buffers of the tests in text_data.rs and file.rs,
\* and buffers that stop inside a BOM
TestVectors ==
    { <<193, 128>>, <<128, 162>>, <<224, 164>>, <<244, 144, 128, 128>>,
      <<239, 187, 191, 193, 128>>, <<239, 187, 191, 128, 162>>,
      <<239, 187, 191, 224, 164>>, <<239, 187, 191, 244, 144, 128, 128>>,
      <<254, 255, 216, 165>>, <<254, 255, 220, 165>>, <<254, 255, 216, 61>>,
      <<254, 255, 219, 255, 255, 255>>,
      <<255, 254, 165, 216>>, <<255, 254, 165, 220>>, <<255, 254, 61, 216>>,
      <<255, 254, 255, 255, 255, 219>>,
      <<254, 255, 216, 61, 222, 10>>, <<255, 254, 61, 216, 10, 222>>,
      <<18, 52, 0>>, <<0, 18, 52>>, <<1, 2, 3, 0, 4, 5>>,
      <<239>>, <<239, 187>>, <<254>>, <<255>>, <<254, 254>>, <<255, 255>>,
      <<237, 160, 128>>, <<226, 130, 172>>, <<240, 159, 140, 141>> }

Fill(k) == [i \in 1..k |-> 65]

\* buffers whose tail starts at the last byte is_binary scans, or right after it
LongInputs ==
    { Fill(k) \o tail :
        k \in {BINARY_DETECTION_THRESHOLD - 1, BINARY_DETECTION_THRESHOLD},
        tail \in SeqsUpTo({0, 65, 128}, MaxTail) \ {<<>>} }

Inputs ==
    { prefix \o body : prefix \in {<<>>, UTF8_BOM},
                       body \in SeqsUpTo(Utf8BodyBytes, MaxBody) }
    \cup { prefix \o body : prefix \in {UTF16BE_BOM, UTF16LE_BOM},
                            body \in SeqsUpTo(Utf16BodyBytes, MaxBody16) }
    \cup TestVectors
    \cup LongInputs

\* chars of one, two, three and four UTF-8 bytes and of one and two UTF-16
\* units: NUL, 'A', U+00E9, U+FEFF, U+10000, U+10FFFF
TextChars == {0, 65, 233, 65279, 65536, 1114111}

LongTexts ==
    { Fill(k) \o <<0>> :
        k \in {BINARY_DETECTION_THRESHOLD - 1, BINARY_DETECTION_THRESHOLD} }

\* the FileContent::Encoded values a caller builds to save
Constructed ==
    { Encoded(t, e) : t \in SeqsUpTo(TextChars, MaxText), e \in Encodings }
    \cup { Encoded(t, e) : t \in LongTexts, e \in {"Utf8", "Utf8Bom"} }

----------------------------------------------------------------------------
(* The state machine: a caller holding one buffer and one file record *)

Init ==
    /\ \/ bytes \in Inputs /\ file = NoFile
       \/ bytes = <<>> /\ file \in Constructed
    /\ loaded = FALSE
    /\ text_data = NoResult
    /\ written = NoOutput
    /\ units = NoUnits

\* TextData::try_from(bytes)
TryFrom ==
    /\ text_data' = try_from(bytes)
    /\ UNCHANGED <<bytes, file, loaded, written, units>>

\* File::new(path, bytes)
FileNew ==
    /\ file' = File_new(bytes)
    /\ loaded' = TRUE
    /\ written' = NoOutput
    /\ UNCHANGED <<bytes, text_data, units>>

\* file.content.write(&mut writer)
Write ==
    /\ file.kind # "None"
    /\ written' = Output(write(file))
    /\ UNCHANGED <<bytes, text_data, file, loaded, units>>

\* the saved bytes are read back as the next buffer
Reload ==
    /\ written.tag = "Some"
    /\ bytes' = written.bytes
    /\ loaded' = FALSE
    /\ text_data' = NoResult
    /\ units' = NoUnits
    /\ UNCHANGED <<file, written>>

\* to_u16_be(bytes)
ToU16Be ==
    /\ units' = Packed("be", to_u16_be(bytes))
    /\ UNCHANGED <<bytes, text_data, file, loaded, written>>

\* to_u16_le(bytes)
ToU16Le ==
    /\ units' = Packed("le", to_u16_le(bytes))
    /\ UNCHANGED <<bytes, text_data, file, loaded, written>>

Next == TryFrom \/ FileNew \/ Write \/ Reload

Spec == Init /\ [][Next]_vars

\* the packer alone, applied to every buffer
NextPack == ToU16Be \/ ToU16Le

SpecPack == Init /\ [][NextPack]_vars

----------------------------------------------------------------------------
(* Properties *)

Range(s) == {s[i] : i \in 1..Len(s)}

\* the 1-based positions of the NUL bytes of a buffer
ZeroPositions(b) == {i \in 1..Len(b) : b[i] = 0}

\* a NUL byte lies among the first BINARY_DETECTION_THRESHOLD bytes
ZeroInScannedPrefix(b) ==
    \E i \in ZeroPositions(b) : i <= BINARY_DETECTION_THRESHOLD

HasBom(b) ==
    \/ starts_with(b, UTF8_BOM)
    \/ starts_with(b, UTF16BE_BOM)
    \/ starts_with(b, UTF16LE_BOM)

\* the file record was written, the output read back and detection run on it
SavedAndDetected ==
    /\ file.kind = "Encoded"
    /\ written.tag = "Some"
    /\ bytes = written.bytes
    /\ text_data.tag # "None"

\* C1 as stated, refuted: detect(encode(t, e)) = (t, e) for every text t,
\* texts with U+0000 and texts beginning with U+FEFF included, and every
\* encoding e.
C1_RoundTripEveryText ==
    SavedAndDetected => text_data = Ok(file.data, file.encoding)

\* the 1-based position, in the UTF-8 bytes of t, of the first byte of char i
Utf8Position(t, i) == Len(as_bytes(SubSeq(t, 1, i - 1))) + 1

\* t saved as plain UTF-8 is detected as plain UTF-8 text
PlainUtf8Safe(t) ==
    /\ ~(Len(t) > 0 /\ t[1] = 65279)
    /\ \A i \in 1..Len(t) :
          t[i] = 0 => Utf8Position(t, i) > BINARY_DETECTION_THRESHOLD

\* C1 (amended): detect(encode(t, e)) = (t, e) for every text t when e is
\* Utf8Bom, Utf16Be or Utf16Le, and for e = Utf8 when t does not begin with
\* U+FEFF and has no U+0000 within the first 8000 bytes of its UTF-8 form.
\* Saved as Utf8, a text beginning with U+FEFF is detected as Utf8Bom without
\* its first char, and any other text with a U+0000 in the first 8000 bytes
\* is detected as Binary.
C1_RoundTrip ==
    SavedAndDetected =>
        IF file.encoding # "Utf8" \/ PlainUtf8Safe(file.data)
        THEN text_data = Ok(file.data, file.encoding)
        ELSE IF file.data[1] = 65279
        THEN text_data = Ok(Tail(file.data), "Utf8Bom")
        ELSE text_data = Err("Binary")

\* C1 witness: a text with U+0000 beyond the scanned prefix, saved as Utf8,
\* comes back unchanged
C1_Witness ==
    /\ SavedAndDetected
    /\ file.encoding = "Utf8"
    /\ 0 \in Range(file.data)
    /\ text_data = Ok(file.data, "Utf8")

\* C2: whenever detection of a buffer returns Ok(data, encoding), writing
\* FileContent::Encoded{data, encoding} emits exactly that buffer.
C2_ByteExactReencoding ==
    ( /\ text_data.tag = "Ok"
      /\ file = Encoded(text_data.data, text_data.encoding)
      /\ written.tag = "Some" )
    => written.bytes = bytes

\* C2 witness: a little-endian buffer holding a surrogate pair is detected,
\* loaded and written back byte for byte
C2_Witness ==
    /\ text_data.tag = "Ok"
    /\ text_data.encoding = "Utf16Le"
    /\ 65536 \in Range(text_data.data)
    /\ loaded
    /\ file = Encoded(text_data.data, text_data.encoding)
    /\ written = Output(bytes)

\* C3: on a buffer that starts with a BOM, detection returns neither Binary
\* nor encoding Utf8: it returns text tagged with the BOM's encoding, or that
\* encoding's validation error.
C3_BomCommits ==
    text_data.tag # "None" =>
        /\ starts_with(bytes, UTF8_BOM) =>
              \/ text_data.tag = "Ok" /\ text_data.encoding = "Utf8Bom"
              \/ text_data.tag = "Err" /\ text_data.error = "FromUtf8"
        /\ starts_with(bytes, UTF16BE_BOM) =>
              \/ text_data.tag = "Ok" /\ text_data.encoding = "Utf16Be"
              \/ text_data.tag = "Err"
                 /\ text_data.error \in {"FromUtf16", "UnevenByteSequence"}
        /\ starts_with(bytes, UTF16LE_BOM) =>
              \/ text_data.tag = "Ok" /\ text_data.encoding = "Utf16Le"
              \/ text_data.tag = "Err"
                 /\ text_data.error \in {"FromUtf16", "UnevenByteSequence"}

\* C3 witness: a little-endian buffer with NUL bytes after the BOM is text
C3_Witness ==
    /\ starts_with(bytes, UTF16LE_BOM)
    /\ ZeroInScannedPrefix(bytes)
    /\ text_data.tag = "Ok"
    /\ text_data.encoding = "Utf16Le"
    /\ Len(text_data.data) > 0

IsValidationError(r) ==
    r.tag = "Err" /\ r.error \in {"FromUtf8", "FromUtf16", "UnevenByteSequence"}

\* C4 as stated, refuted: File::new stores Binary only for buffers detection
\* classified as Binary, and a buffer that fails validation is an error of
\* File::new, stored neither as Binary nor as text.
C4_ValidationErrorSurfaced ==
    (loaded /\ text_data.tag # "None") =>
        /\ file.kind = "Binary" => text_data = Err("Binary")
        /\ IsValidationError(text_data) => file.kind \notin {"Binary", "Encoded"}

\* C4 (amended): File::new stores Binary, holding the input bytes, for every
\* buffer on which detection fails, validation failures as well as the Binary
\* classification, and returns Ok; it stores text exactly when detection
\* returns Ok, and then that text and encoding.
C4_FileNewKeepsFailedBuffersAsBinary ==
    (loaded /\ text_data.tag # "None") =>
        /\ text_data.tag = "Err" => file = Binary(bytes)
        /\ text_data.tag = "Ok" => file = Encoded(text_data.data, text_data.encoding)

\* C4 witness: the overlong C1 80 fails validation and is stored as Binary
C4_Witness ==
    /\ loaded
    /\ bytes = <<193, 128>>
    /\ text_data = Err("FromUtf8")
    /\ file = Binary(bytes)

\* C5: a buffer without BOM that is valid UTF-8 is detected as Binary if and
\* only if a NUL byte lies at a position <= 8000 (positions counted from 1:
\* among the first 8000 bytes); otherwise it is Utf8 text holding one U+0000
\* for each of its NUL bytes.
C5_BinaryThreshold ==
    (text_data.tag # "None" /\ ~HasBom(bytes) /\ ValidUtf8(bytes)) =>
        IF ZeroInScannedPrefix(bytes)
        THEN text_data = Err("Binary")
        ELSE /\ text_data.tag = "Ok"
             /\ text_data.encoding = "Utf8"
             /\ Cardinality(ZeroPositions(text_data.data))
                    = Cardinality(ZeroPositions(bytes))

\* C5 witness: the only NUL byte at position 8001 ends up as the last char
\* of Utf8 text
C5_Witness ==
    /\ ZeroPositions(bytes) = {BINARY_DETECTION_THRESHOLD + 1}
    /\ text_data.tag = "Ok"
    /\ text_data.encoding = "Utf8"
    /\ text_data.data[BINARY_DETECTION_THRESHOLD + 1] = 0

HasUtf16Bom(b) == starts_with(b, UTF16BE_BOM) \/ starts_with(b, UTF16LE_BOM)

\* C6: a buffer with a UTF-16 BOM and an odd number of bytes after it fails
\* with UnevenByteSequence, whatever the complete units before the last byte.
C6_UnevenUtf16 ==
    ( /\ text_data.tag # "None"
      /\ HasUtf16Bom(bytes)
      /\ (Len(bytes) - UTF16_BOM_LENGTH) % 2 = 1 )
    => text_data = Err("UnevenByteSequence")

\* C6 witness: an unpaired high surrogate 0xD800 followed by one dangling byte
C6_Witness ==
    /\ bytes = <<254, 255, 216, 0, 0>>
    /\ text_data = Err("UnevenByteSequence")

\* C7: for a buffer without BOM that has a NUL among its first 8000 bytes,
\* File::new stores Binary content equal to the buffer, and writing that
\* content emits the buffer.
C7_BinaryPassthrough ==
    (loaded /\ ~HasBom(bytes) /\ ZeroInScannedPrefix(bytes)) =>
        /\ file = Binary(bytes)
        /\ written.tag = "Some" => written.bytes = bytes

\* C7 witness: 01 02 03 00 04 05 loaded and written back
C7_Witness ==
    /\ loaded
    /\ bytes = <<1, 2, 3, 0, 4, 5>>
    /\ file = Binary(bytes)
    /\ written = Output(bytes)

\* C8: the empty buffer is detected as empty Utf8 text, and a buffer that is
\* only a BOM as empty text tagged with that BOM's encoding.
C8_EmptyInput ==
    text_data.tag # "None" =>
        /\ bytes = <<>> => text_data = Ok(<<>>, "Utf8")
        /\ bytes = UTF8_BOM => text_data = Ok(<<>>, "Utf8Bom")
        /\ bytes = UTF16BE_BOM => text_data = Ok(<<>>, "Utf16Be")
        /\ bytes = UTF16LE_BOM => text_data = Ok(<<>>, "Utf16Le")

\* C8 witness: detection has run on the empty buffer
C8_Witness ==
    /\ bytes = <<>>
    /\ text_data = Ok(<<>>, "Utf8")

\* the 16-bit units after a UTF-16 BOM, read in the BOM's byte order
UnitCount(b) == (Len(b) - UTF16_BOM_LENGTH) \div 2
UnitAt(b, i) ==
    LET first == b[UTF16_BOM_LENGTH + 2 * i - 1]
        second == b[UTF16_BOM_LENGTH + 2 * i]
    IN  IF starts_with(b, UTF16BE_BOM)
        THEN first * 256 + second
        ELSE second * 256 + first

\* unit i is a high surrogate with no low surrogate right after it, or a low
\* surrogate with no high surrogate right before it
Unpaired(b, i) ==
    LET u == UnitAt(b, i) IN
    \/ /\ u >= 55296 /\ u <= 56319
       /\ \/ i = UnitCount(b)
          \/ UnitAt(b, i + 1) < 56320
          \/ UnitAt(b, i + 1) > 57343
    \/ /\ u >= 56320 /\ u <= 57343
       /\ \/ i = 1
          \/ UnitAt(b, i - 1) < 55296
          \/ UnitAt(b, i - 1) > 56319

\* one char per unit outside the surrogate range and one per surrogate pair
PairedChars(b) ==
    SelectSeq(
        [i \in 1..UnitCount(b) |->
            LET u == UnitAt(b, i) IN
            IF u >= 56320 /\ u <= 57343 THEN -1
            ELSE IF u >= 55296 /\ u <= 56319
            THEN 65536 + (u - 55296) * 1024 + (UnitAt(b, i + 1) - 56320)
            ELSE u],
        IsChar)

\* C9: a buffer with a UTF-16 BOM and an even number of bytes after it fails
\* with FromUtf16 if and only if some unit is an unpaired surrogate; otherwise
\* it is text with one char per non-surrogate unit and one per pair, in order.
C9_Utf16WellFormedness ==
    ( /\ text_data.tag # "None"
      /\ HasUtf16Bom(bytes)
      /\ (Len(bytes) - UTF16_BOM_LENGTH) % 2 = 0 )
    => IF \E i \in 1..UnitCount(bytes) : Unpaired(bytes, i)
       THEN text_data = Err("FromUtf16")
       ELSE text_data = Ok(PairedChars(bytes),
                           IF starts_with(bytes, UTF16BE_BOM)
                           THEN "Utf16Be" ELSE "Utf16Le")

\* C9 witness: three units, a surrogate pair among them, decode to two chars
C9_Witness ==
    /\ HasUtf16Bom(bytes)
    /\ Len(bytes) = UTF16_BOM_LENGTH + 6
    /\ text_data.tag = "Ok"
    /\ Len(text_data.data) = 2
    /\ 65536 \in Range(text_data.data)

\* C10: on a slice of even length the packer returns len/2 units, unit i made
\* of bytes 2i-1 and 2i (counted from 1) in the byte order asked for; the
\* empty slice gives no units; a slice of odd length gives
\* UnevenByteSequenceError and no units.
C10_Packer ==
    units.order # "-" =>
        IF Len(bytes) % 2 = 0
        THEN /\ units.ok
             /\ Len(units.units) = Len(bytes) \div 2
             /\ \A i \in 1..Len(units.units) :
                   LET hi == units.units[i] \div 256
                       lo == units.units[i] % 256
                   IN  IF units.order = "be"
                       THEN hi = bytes[2 * i - 1] /\ lo = bytes[2 * i]
                       ELSE lo = bytes[2 * i - 1] /\ hi = bytes[2 * i]
        ELSE ~units.ok /\ units.units = <<>>

\* C10 witness: FF FE 00 D8 packed little-endian is 0xFEFF, 0xD800
C10_Witness ==
    /\ bytes = <<255, 254, 0, 216>>
    /\ units = [order |-> "le", ok |-> TRUE, units |-> <<65279, 55296>>]

\* the number of chars above U+FFFF among the first n chars of t
Supplementary(t, n) == Cardinality({j \in 1..n : t[j] > 65535})

\* the number of bytes a UTF-16 encoder has emitted before char i of t
Utf16Offset(t, i) == UTF16_BOM_LENGTH + 2 * (i - 1) + 2 * Supplementary(t, i - 1)

\* the 16-bit unit whose first byte is byte k (counted from 1) of out
UnitOfBytes(out, k, order) ==
    IF order = "be"
    THEN out[k] * 256 + out[k + 1]
    ELSE out[k + 1] * 256 + out[k]

\* out is bom, then for each char of t one unit holding it, or for a char
\* above U+FFFF a high then a low surrogate that combine to it
IsUtf16Of(out, t, bom, order) ==
    /\ Len(out) = UTF16_BOM_LENGTH + 2 * Len(t) + 2 * Supplementary(t, Len(t))
    /\ SubSeq(out, 1, UTF16_BOM_LENGTH) = bom
    /\ \A i \in 1..Len(t) :
          LET k == Utf16Offset(t, i) + 1
              first == UnitOfBytes(out, k, order)
          IN  IF t[i] <= 65535
              THEN first = t[i]
              ELSE LET second == UnitOfBytes(out, k + 2, order) IN
                   /\ first >= 55296 /\ first <= 56319
                   /\ second >= 56320 /\ second <= 57343
                   /\ 65536 + (first - 55296) * 1024 + (second - 56320) = t[i]

\* C11: written as Utf8Bom a text is EF BB BF followed by its UTF-8 bytes;
\* written as Utf16Be (Utf16Le) it is FE FF (FF FE) followed by its UTF-16
\* units high (low) byte first, two units for a char above U+FFFF and one for
\* any other; the BOM is there for the empty text too, and every text is
\* written.
C11_EncoderOutputFormat ==
    (file.kind = "Encoded" /\ written.tag = "Some") =>
        /\ file.encoding = "Utf8Bom" =>
              /\ starts_with(written.bytes, <<239, 187, 191>>)
              /\ from_utf8(SliceFrom(written.bytes, 3))
                     = [ok |-> TRUE, data |-> file.data]
        /\ file.encoding = "Utf16Be" =>
              IsUtf16Of(written.bytes, file.data, <<254, 255>>, "be")
        /\ file.encoding = "Utf16Le" =>
              IsUtf16Of(written.bytes, file.data, <<255, 254>>, "le")

\* C11 witness: 'A' then U+10000 written big-endian: one unit, then a pair
C11_Witness ==
    /\ file = Encoded(<<65, 65536>>, "Utf16Be")
    /\ ~loaded
    /\ written = Output(<<254, 255, 0, 65, 216, 0, 220, 0>>)

\* C12: File::new succeeds on every buffer - text, binary, malformed UTF-8 or
\* UTF-16, odd-length UTF-16 - and writing the content it stored emits the
\* buffer unchanged.
C12_LoadSaveIdentity ==
    loaded =>
        /\ file.kind \in {"Encoded", "Binary"}
        /\ written.tag = "Some" => written.bytes = bytes

\* C12 witness: a big-endian buffer with an unpaired surrogate, rejected by
\* detection with FromUtf16, is loaded and written back byte for byte
C12_Witness ==
    /\ loaded
    /\ bytes = <<254, 255, 216, 165>>
    /\ text_data = Err("FromUtf16")
    /\ file.kind = "Binary"
    /\ written = Output(bytes)

====
